---- MODULE Spec2Model ----
(***************************************************************************)
(* go2v: installer of a Go toolchain.  The model follows main() stage by   *)
(* stage: platform detection, home directory, catalog fetch, version       *)
(* resolution, temp-dir checks, download, cleanup of the old installation, *)
(* extraction of the tar.gz, removal of the package and PATH               *)
(* configuration.                                                          *)
(*                                                                         *)
(* Strings that the code inspects (versions, paths, profile contents,      *)
(* response bodies) are sequences of one-character strings, so that        *)
(* TrimPrefix, HasPrefix, Count, Contains and Join/Clean are computed on   *)
(* characters as the Go library computes them.  Literals the code only     *)
(* concatenates ("https://go.dev/dl/", ".tar.gz", GOOS, GOARCH) are single *)
(* tokens of such a sequence.                                              *)
(***************************************************************************)
EXTENDS Integers, Sequences, FiniteSets, TLC

VARIABLES
    pc,                \* the stage main() is at
    exitCode,          \* -1 while running, then the process exit status
    log,               \* the "Error:" / "Warning:" lines printed so far
    GOOS,              \* runtime.GOOS of the build that runs
    targetVersions,    \* the -v values, in the order given
    rootMode,          \* the --root flag
    euid,              \* os.Geteuid()
    goArch,            \* main's goArch
    homeDir,           \* main's homeDir
    allVersions,       \* main's allVersions: [nil, list]
    versionToInstall,  \* main's versionToInstall
    downloadURL,       \* main's downloadURL
    foundDownloadable, \* main's foundDownloadable
    textCalls,         \* number of GETs of latestVersionTextURL so far
    textResp,          \* the last response to such a GET
    synthesized,       \* TRUE once a URL was built from the template
    fs,                \* the filesystem: path -> [kind, mode, data]
    fs0,               \* the filesystem the run started on
    umask,             \* the permission bits the process's umask clears
    installPath,       \* main's installPath
    header,            \* extractTarGz's header: the entry read last
    nread,             \* number of entries tr.Next() has returned
    recorded,          \* target -> mode of the last entry extracted for it
    userCalls,         \* number of calls of configureUserPath
    manual,            \* TRUE once printManualPathInstruction was called
    runs               \* number of runs of the tool on this filesystem

runVars == <<pc, exitCode, log>>
cfgVars == <<GOOS, targetVersions, rootMode, euid>>
resVars == <<goArch, homeDir, allVersions, versionToInstall, downloadURL,
             foundDownloadable, textCalls, textResp, synthesized>>
envVars == <<fs, fs0, umask>>
extVars == <<installPath, header, nread, recorded>>
pathVars == <<userCalls, manual, runs>>
vars == <<runVars, cfgVars, resVars, envVars, extVars, pathVars>>

---------------------------------------------------------------------------
(* Bounds of the model *)

MaxTargets == 2
MaxCatalog == 2
MaxEntries == 3
MaxRuns == 3

---------------------------------------------------------------------------
(* package strings *)

HasPrefix(s, prefix) ==
    /\ Len(s) >= Len(prefix)
    /\ SubSeq(s, 1, Len(prefix)) = prefix

TrimPrefix(s, prefix) ==
    IF HasPrefix(s, prefix) THEN SubSeq(s, Len(prefix) + 1, Len(s)) ELSE s

RECURSIVE Count(_, _)
Count(s, c) ==
    IF s = <<>> THEN 0
    ELSE (IF Head(s) = c THEN 1 ELSE 0) + Count(Tail(s), c)

Contains(s, substr) ==
    \E i \in 0..(Len(s) - Len(substr)) : SubSeq(s, i + 1, i + Len(substr)) = substr

IsSpace(c) == c \in {" ", "\n"}

RECURSIVE TrimLeft(_)
TrimLeft(s) ==
    IF s # <<>> /\ IsSpace(Head(s)) THEN TrimLeft(Tail(s)) ELSE s

RECURSIVE TrimRight(_)
TrimRight(s) ==
    IF s # <<>> /\ IsSpace(s[Len(s)]) THEN TrimRight(SubSeq(s, 1, Len(s) - 1)) ELSE s

TrimSpace(s) == TrimRight(TrimLeft(s))

\* strings.Split(s, "\n")[0]
RECURSIVE FirstLine(_)
FirstLine(s) ==
    IF s = <<>> \/ Head(s) = "\n" THEN <<>> ELSE <<Head(s)>> \o FirstLine(Tail(s))

---------------------------------------------------------------------------
(* package path/filepath, on a system whose os.PathSeparator is "/" *)

Sep == "/"
Dot == <<".">>
DotDot == <<".", ".">>

\* strings.Split(path, "/"): the elements between separators, empty ones included
RECURSIVE SplitPath(_)
SplitPath(path) ==
    IF path = <<>> THEN << <<>> >>
    ELSE IF Head(path) = Sep THEN << <<>> >> \o SplitPath(Tail(path))
    ELSE LET rest == SplitPath(Tail(path)) IN
         << <<Head(path)>> \o Head(rest) >> \o Tail(rest)

\* the elements Clean keeps: empty and "." elements dropped, ".." removing the
\* element before it, dropped at the root and kept at the start of a relative path
RECURSIVE CleanElements(_, _, _)
CleanElements(elems, out, rooted) ==
    IF elems = <<>> THEN out
    ELSE LET e == Head(elems) IN
         IF e = <<>> \/ e = Dot THEN CleanElements(Tail(elems), out, rooted)
         ELSE IF e = DotDot THEN
              IF out # <<>> /\ out[Len(out)] # DotDot
              THEN CleanElements(Tail(elems), SubSeq(out, 1, Len(out) - 1), rooted)
              ELSE IF rooted THEN CleanElements(Tail(elems), out, rooted)
              ELSE CleanElements(Tail(elems), Append(out, e), rooted)
         ELSE CleanElements(Tail(elems), Append(out, e), rooted)

RECURSIVE JoinElements(_)
JoinElements(elems) ==
    IF elems = <<>> THEN <<>>
    ELSE IF Len(elems) = 1 THEN elems[1]
    ELSE elems[1] \o <<Sep>> \o JoinElements(Tail(elems))

\* filepath.Clean
Clean(path) ==
    IF path = <<>> THEN Dot
    ELSE LET rooted == Head(path) = Sep
             out == CleanElements(SplitPath(path), <<>>, rooted)
         IN IF rooted THEN <<Sep>> \o JoinElements(out)
            ELSE IF out = <<>> THEN Dot
            ELSE JoinElements(out)

\* filepath.Join(a, b): empty elements are ignored, the result is cleaned
Join(a, b) ==
    IF a = <<>> /\ b = <<>> THEN <<>>
    ELSE IF a = <<>> THEN Clean(b)
    ELSE IF b = <<>> THEN Clean(a)
    ELSE Clean(a \o <<Sep>> \o b)

\* filepath.Dir of a clean absolute path
Dir(path) ==
    LET elems == CleanElements(SplitPath(path), <<>>, TRUE) IN
    IF elems = <<>> THEN <<Sep>>
    ELSE <<Sep>> \o JoinElements(SubSeq(elems, 1, Len(elems) - 1))

---------------------------------------------------------------------------
(* The filesystem.  A state f maps each existing path to its kind ("dir"   *)
(* or "file"), its permission bits and, for a file, its content.  A call   *)
(* that can fail for reasons outside the model (permissions, I/O) takes    *)
(* the outcome ok as an input.                                             *)

Root == <<Sep>>

Node(kind, mode, data) == [kind |-> kind, mode |-> mode, data |-> data]

IsDir(f, path) == path \in DOMAIN f /\ f[path].kind = "dir"

IsFile(f, path) == path \in DOMAIN f /\ f[path].kind = "file"

\* path and the directories above it, the root excluded
RECURSIVE Lineage(_)
Lineage(path) ==
    IF path = Root THEN {} ELSE {path} \cup Lineage(Dir(path))

\* some directory on the way to path is a regular file (ENOTDIR)
BlockedByFile(f, path) == \E a \in Lineage(Dir(path)) : IsFile(f, a)

\* os.Stat: "ok", "notexist" (os.IsNotExist) or "error"
Stat(f, path, ok) ==
    IF ~ok \/ BlockedByFile(f, path) THEN "error"
    ELSE IF path \in DOMAIN f THEN "ok"
    ELSE "notexist"

Put(f, path, node) == [q \in DOMAIN f \cup {path} |-> IF q = path THEN node ELSE f[q]]

\* os.MkdirAll(path, perm): the missing directories of the lineage are created
\* with perm less the umask
MkdirAll(f, path, perm, mask, ok) ==
    IF ~ok \/ BlockedByFile(f, path) \/ IsFile(f, path) THEN [fs |-> f, err |-> TRUE]
    ELSE [fs |-> [q \in DOMAIN f \cup Lineage(path) |->
                    IF q \in DOMAIN f THEN f[q] ELSE Node("dir", perm \ mask, <<>>)],
          err |-> FALSE]

\* os.Chmod(path, perm): the umask plays no part
Chmod(f, path, perm, ok) ==
    IF ~ok \/ path \notin DOMAIN f THEN [fs |-> f, err |-> TRUE]
    ELSE [fs |-> [f EXCEPT ![path].mode = perm], err |-> FALSE]

\* an open that first makes the directories missing above path
OpenTruncMakingParents(f, path, perm, mask, ok) ==
    LET made == MkdirAll(f, Dir(path), perm, mask, ok) IN
    IF made.err \/ IsDir(made.fs, path) THEN [fs |-> f, err |-> TRUE]
    ELSE IF path \in DOMAIN made.fs
         THEN [fs |-> [made.fs EXCEPT ![path].data = <<>>], err |-> FALSE]
    ELSE [fs |-> Put(made.fs, path, Node("file", perm \ mask, <<>>)), err |-> FALSE]

\* os.OpenFile(path, O_CREATE|O_RDWR|O_TRUNC, perm) and os.Create (perm 0666):
\* an existing file is truncated and keeps its mode, a new one gets perm less
\* the umask; the directory of path must exist
OpenTrunc(f, path, perm, mask, ok) ==
    IF ~ok \/ ~IsDir(f, Dir(path)) \/ IsDir(f, path) THEN [fs |-> f, err |-> TRUE]
    ELSE IF path \in DOMAIN f THEN [fs |-> [f EXCEPT ![path].data = <<>>], err |-> FALSE]
    ELSE [fs |-> Put(f, path, Node("file", perm \ mask, <<>>)), err |-> FALSE]

\* the bytes written through an open file
Write(f, path, data) == [f EXCEPT ![path].data = @ \o data]

\* os.RemoveAll(path): path and everything below it
Below(f, path) == {q \in DOMAIN f : path \in Lineage(q)}

RemoveAll(f, path) == [q \in DOMAIN f \ Below(f, path) |-> f[q]]

\* os.Remove of a file
Remove(f, path) == [q \in DOMAIN f \ {path} |-> f[q]]

\* permission bits
Perm0755 == {"u+r", "u+w", "u+x", "g+r", "g+x", "o+r", "o+x"}
Perm0775 == Perm0755 \cup {"g+w"}
Perm0644 == {"u+r", "u+w", "g+r", "o+r"}
Perm0666 == Perm0644 \cup {"g+w", "o+w"}
Perm0600 == {"u+r", "u+w"}

---------------------------------------------------------------------------
(* Constants of the program *)

GoPrefix == <<"g", "o">>
DownloadBase == "https://go.dev/dl/"
GOARCH == "amd64"

\* fmt.Sprintf("https://go.dev/dl/%s", file.Filename)
FileURL(filename) == <<DownloadBase>> \o filename

\* fmt.Sprintf("https://go.dev/dl/go%s.%s-%s.tar.gz", version, runtime.GOOS, goArch)
ConstructURL(version, os, arch) ==
    <<DownloadBase>> \o GoPrefix \o version \o <<".", os, "-", arch, ".tar.gz">>

---------------------------------------------------------------------------
(* Diagnostics: one record per "Error:" or "Warning:" line, with the line  *)
(* of the source that prints it.                                           *)

Error(site) == [level |-> "Error", site |-> site]
Warning(site) == [level |-> "Warning", site |-> site]

---------------------------------------------------------------------------
(* Inputs *)

V12 == <<"1", ".", "2">>
V120 == <<"1", ".", "2", ".", "0">>
V130 == <<"1", ".", "3", ".", "0">>
V1 == <<"1">>
V1201 == <<"1", ".", "2", ".", "0", ".", "1">>

\* values of -v
TargetStrs == {V1, V12, V120, V1201}

SeqsUpTo(S, n) == UNION {[1..k -> S] : k \in 0..n}

TargetLists == SeqsUpTo(TargetStrs, MaxTargets)

File(name, os, arch, kind) ==
    [Filename |-> name, OS |-> os, Arch |-> arch, Kind |-> kind]

FileA == File(GoPrefix \o V120 \o <<".", "linux", "-", "amd64", ".tar.gz">>,
              "linux", "amd64", "archive")
FileB == File(<<"b", ".tar.gz">>, "linux", "amd64", "archive")
FilePkg == File(<<"c", ".pkg">>, "linux", "amd64", "installer")
FileDarwin == File(<<"d", ".tar.gz">>, "darwin", "amd64", "archive")
FileArm == File(<<"e", ".tar.gz">>, "linux", "arm64", "archive")

\* GoVersionInfo
VersionInfo(version, stable, files) ==
    [Version |-> version, Stable |-> stable, Files |-> files]

CatalogEntries ==
    { VersionInfo(GoPrefix \o V120, TRUE, <<FilePkg, FileB, FileA>>),
      VersionInfo(GoPrefix \o V120, FALSE, <<FileDarwin, FileArm>>),
      VersionInfo(GoPrefix \o V130, FALSE, <<FilePkg, FileB, FileA>>),
      VersionInfo(GoPrefix \o V130, TRUE, <<FileDarwin, FileArm>>),
      VersionInfo(GoPrefix \o V130, TRUE, <<>>),
      VersionInfo(GoPrefix \o V12, TRUE, <<FileA>>),
      VersionInfo(V120, TRUE, <<FileB>>) }

\* what getAllGoVersions can receive from goVersionURL
CatalogResponses ==
    {[kind |-> k, versions |-> <<>>] : k \in {"transport", "status", "parse", "ok"}}
    \cup {[kind |-> "ok", versions |-> l] : l \in SeqsUpTo(CatalogEntries, MaxCatalog)}

\* what getLatestGoVersionFromTextHTTP can receive from latestVersionTextURL
TextResponses ==
    {[kind |-> k, body |-> <<>>] : k \in {"transport", "status", "read", "ok"}}
    \cup {[kind |-> "ok", body |-> b] :
            b \in { GoPrefix \o V130 \o <<"\n", "t">>,
                    <<"\n", " ">> \o GoPrefix \o V130 \o <<"\n">>,
                    V130,
                    <<"<">> \o GoPrefix \o V130 }}

\* uname's Machine field
Machines == {"x86_64", "X86_64", "aarch64", ""}

---------------------------------------------------------------------------
(* Platform detection and architecture mapping *)

\* strings.ToLower on the machine names of Machines and the GOARCH values
ToLower(s) == IF s = "X86_64" THEN "x86_64" ELSE s

mapArchitecture(detectedArch) ==
    LET lowerArch == ToLower(detectedArch) IN
    CASE lowerArch \in {"x86_64", "amd64"} -> "amd64"
      [] lowerArch \in {"aarch64", "arm64"} -> "arm64"
      [] lowerArch \in {"i386", "i686"} -> "386"
      [] lowerArch \in {"armv6l", "armv7l"} -> "arm"
      [] lowerArch = "ppc64le" -> "ppc64le"
      [] lowerArch = "s390x" -> "s390x"
      [] OTHER -> detectedArch

\* getSystemInfo of the build for goos: Uname on linux, runtime.GOARCH without
\* error on darwin and freebsd, runtime.GOARCH with an error elsewhere
getSystemInfo(goos, unameOK, machine) ==
    CASE goos = "linux" ->
            IF unameOK THEN [architecture |-> machine, err |-> FALSE]
            ELSE [architecture |-> GOARCH, err |-> TRUE]
      [] goos \in {"darwin", "freebsd"} -> [architecture |-> GOARCH, err |-> FALSE]
      [] OTHER -> [architecture |-> GOARCH, err |-> TRUE]

\* main, lines 93-107
GetSystemInfo ==
    /\ pc = "detect"
    /\ \E unameOK \in BOOLEAN, machine \in Machines :
         LET info == getSystemInfo(GOOS, unameOK, machine) IN
         IF info.err THEN
            /\ log' = log \o <<Error(96), Warning(97)>>
            /\ goArch' = GOARCH
            /\ pc' = "home"
            /\ exitCode' = exitCode
         ELSE IF mapArchitecture(info.architecture) = "" THEN
            /\ log' = Append(log, Error(103))
            /\ goArch' = ""
            /\ pc' = "exit"
            /\ exitCode' = 1
         ELSE
            /\ log' = log
            /\ goArch' = mapArchitecture(info.architecture)
            /\ pc' = "home"
            /\ exitCode' = exitCode
    /\ UNCHANGED <<cfgVars, homeDir, allVersions, versionToInstall, downloadURL,
                   foundDownloadable, textCalls, textResp, synthesized,
                   envVars, extVars, pathVars>>

\* values of os.UserHomeDir()
HomeDirs == { <<"/", "h">> }

\* main, lines 110-117
UserHomeDir ==
    /\ pc = "home"
    /\ \E ok \in BOOLEAN, dir \in HomeDirs :
         IF ok THEN
            /\ homeDir' = dir
            /\ installPath' = Join(Join(dir, <<".local">>), <<"go">>)
            /\ pc' = "fetch"
            /\ UNCHANGED <<exitCode, log>>
         ELSE
            /\ homeDir' = <<>>
            /\ installPath' = installPath
            /\ log' = Append(log, Error(112))
            /\ pc' = "exit"
            /\ exitCode' = 1
    /\ UNCHANGED <<cfgVars, goArch, allVersions, versionToInstall, downloadURL,
                   foundDownloadable, textCalls, textResp, synthesized,
                   envVars, header, nread, recorded, pathVars>>

---------------------------------------------------------------------------
(* Version catalog client *)

NilVersions == [nil |-> TRUE, list |-> <<>>]

\* the slice getAllGoVersions returns; its error is non-nil iff the slice is nil
getAllGoVersions(resp) ==
    IF resp.kind # "ok" \/ Len(resp.versions) = 0 THEN NilVersions
    ELSE [nil |-> FALSE, list |-> resp.versions]

\* getLatestGoVersionFromTextHTTP without the test of line 643
getLatestUnchecked(resp) ==
    IF resp.kind # "ok" THEN [err |-> TRUE, version |-> <<>>]
    ELSE [err |-> FALSE, version |-> TrimPrefix(FirstLine(TrimSpace(resp.body)), GoPrefix)]

\* getLatestGoVersionFromTextHTTP, lines 619-648
getLatestGoVersionFromTextHTTP(resp) ==
    IF resp.kind # "ok" THEN [err |-> TRUE, version |-> <<>>]
    ELSE LET versionLine == FirstLine(TrimSpace(resp.body)) IN
         IF ~HasPrefix(versionLine, GoPrefix) THEN [err |-> TRUE, version |-> <<>>]
         ELSE [err |-> FALSE, version |-> TrimPrefix(versionLine, GoPrefix)]

\* main, lines 119-127
FetchVersions(Responses) ==
    /\ pc = "fetch"
    /\ \E resp \in Responses :
         /\ allVersions' = getAllGoVersions(resp)
         /\ log' = IF allVersions'.nil THEN Append(log, Error(123)) ELSE log
    /\ pc' = "resolve"
    /\ UNCHANGED <<exitCode, cfgVars, goArch, homeDir, versionToInstall, downloadURL,
                   foundDownloadable, textCalls, textResp, synthesized,
                   envVars, extVars, pathVars>>

---------------------------------------------------------------------------
(* Version resolver *)

\* NormalizeVersion with the dot count tested by <= instead of ==
NormalizeVersionUpToOneDot(targetVer) ==
    IF Count(targetVer, ".") <= 1 THEN targetVer \o <<".", "0">> ELSE targetVer

\* main, lines 139-142
NormalizeVersion(targetVer) ==
    IF Count(targetVer, ".") = 1 THEN targetVer \o <<".", "0">> ELSE targetVer

\* FileMatches without the test of the kind
FileMatchesAnyKind(file, os, arch) ==
    file.OS = os /\ file.Arch = arch

\* the test of lines 151 and 197
FileMatches(file, os, arch) ==
    file.OS = os /\ file.Arch = arch /\ file.Kind = "archive"

\* the loop of lines 150-160 and 196-206 from files[i] on: the index of the file it
\* breaks at, 0 when it runs to the end
RECURSIVE ScanFiles(_, _, _, _)
ScanFiles(files, os, arch, i) ==
    IF i > Len(files) THEN 0
    ELSE IF FileMatches(files[i], os, arch) THEN i
    ELSE ScanFiles(files, os, arch, i + 1)

\* line 147
VersionMatches(v, targetVer) == TrimPrefix(v.Version, GoPrefix) = targetVer

\* the loop of lines 146-165 from list[i] on: <<entry, file>> where it breaks,
\* <<0, 0>> when it runs to the end
RECURSIVE ScanVersions(_, _, _, _, _)
ScanVersions(list, targetVer, os, arch, i) ==
    IF i > Len(list) THEN <<0, 0>>
    ELSE LET j == IF VersionMatches(list[i], targetVer)
                  THEN ScanFiles(list[i].Files, os, arch, 1) ELSE 0
         IN IF j > 0 THEN <<i, j>> ELSE ScanVersions(list, targetVer, os, arch, i + 1)

\* ScanStable without the test of v.Stable
RECURSIVE ScanAnyStability(_, _, _, _)
ScanAnyStability(list, os, arch, i) ==
    IF i > Len(list) THEN <<0, 0>>
    ELSE LET j == ScanFiles(list[i].Files, os, arch, 1)
         IN IF j > 0 THEN <<i, j>> ELSE ScanAnyStability(list, os, arch, i + 1)

\* the loop of lines 192-213 from list[i] on
RECURSIVE ScanStable(_, _, _, _)
ScanStable(list, os, arch, i) ==
    IF i > Len(list) THEN <<0, 0>>
    ELSE LET j == IF list[i].Stable THEN ScanFiles(list[i].Files, os, arch, 1) ELSE 0
         IN IF j > 0 THEN <<i, j>> ELSE ScanStable(list, os, arch, i + 1)

Unresolved ==
    [found |-> FALSE, version |-> <<>>, url |-> <<>>, synth |-> FALSE, out |-> <<>>]

\* the result of a catalog hit, lines 152-154 and 198-200
Picked(list, hit) ==
    [found |-> TRUE,
     version |-> TrimPrefix(list[hit[1]].Version, GoPrefix),
     url |-> FileURL(list[hit[1]].Files[hit[2]].Filename),
     synth |-> FALSE, out |-> <<>>]

\* TryTarget without the constructed URL of lines 171-176
TryTargetNoFallback(originalTargetVer, all, os, arch) ==
    LET targetVer == NormalizeVersion(originalTargetVer)
        hit == IF all.nil THEN <<0, 0>> ELSE ScanVersions(all.list, targetVer, os, arch, 1)
    IN IF hit[1] > 0 THEN Picked(all.list, hit) ELSE Unresolved

\* the body of the loop over targetVersions, lines 137-177, for one element
TryTarget(originalTargetVer, all, os, arch) ==
    LET targetVer == NormalizeVersion(originalTargetVer)
        hit == IF all.nil THEN <<0, 0>> ELSE ScanVersions(all.list, targetVer, os, arch, 1)
    IN IF hit[1] > 0 THEN Picked(all.list, hit)
       ELSE [found |-> TRUE, version |-> targetVer,
             url |-> ConstructURL(targetVer, os, arch),
             synth |-> TRUE, out |-> <<Warning(171)>>]

\* the loop of lines 136-178: both arms of line 168 break, so the body runs for
\* the first element only
TargetLoop(targets, all, os, arch) ==
    IF Len(targets) = 0 THEN Unresolved ELSE TryTarget(targets[1], all, os, arch)

\* main, lines 134-183
ResolveRequested ==
    /\ pc = "resolve"
    /\ Len(targetVersions) > 0
    /\ LET r == TargetLoop(targetVersions, allVersions, GOOS, goArch) IN
         /\ versionToInstall' = r.version
         /\ downloadURL' = r.url
         /\ foundDownloadable' = r.found
         /\ synthesized' = r.synth
         /\ IF ~r.found THEN
               /\ log' = Append(log \o r.out, Error(181))
               /\ pc' = "exit"
               /\ exitCode' = 1
            ELSE
               /\ log' = log \o r.out
               /\ pc' = "tempdir"
               /\ exitCode' = exitCode
    /\ UNCHANGED <<cfgVars, goArch, homeDir, allVersions, textCalls, textResp,
                   envVars, extVars, pathVars>>

\* main, lines 185-236
ResolveLatest(Responses) ==
    /\ pc = "resolve"
    /\ Len(targetVersions) = 0
    /\ LET hit == IF allVersions.nil THEN <<0, 0>>
                  ELSE ScanStable(allVersions.list, GOOS, goArch, 1)
           r == IF hit[1] > 0 THEN Picked(allVersions.list, hit) ELSE Unresolved
       IN IF ~r.found \/ r.url = <<>> THEN
             \E resp \in Responses :
                LET t == getLatestGoVersionFromTextHTTP(resp) IN
                /\ textCalls' = textCalls + 1
                /\ textResp' = resp
                /\ IF t.err THEN
                      /\ log' = log \o <<Warning(218), Error(221), Error(222)>>
                      /\ versionToInstall' = r.version
                      /\ downloadURL' = r.url
                      /\ foundDownloadable' = r.found
                      /\ synthesized' = synthesized
                      /\ pc' = "exit"
                      /\ exitCode' = 1
                   ELSE
                      /\ log' = Append(log, Warning(218))
                      /\ versionToInstall' = t.version
                      /\ downloadURL' = ConstructURL(t.version, GOOS, goArch)
                      /\ foundDownloadable' = TRUE
                      /\ synthesized' = TRUE
                      /\ pc' = "tempdir"
                      /\ exitCode' = exitCode
          ELSE
             /\ versionToInstall' = r.version
             /\ downloadURL' = r.url
             /\ foundDownloadable' = TRUE
             /\ pc' = "tempdir"
             /\ UNCHANGED <<exitCode, log, textCalls, textResp, synthesized>>
    /\ UNCHANGED <<cfgVars, goArch, homeDir, allVersions, envVars, extVars, pathVars>>

---------------------------------------------------------------------------
(* Archive fetcher *)

\* os.TempDir()
TempDir == <<Sep, "tmp">>

\* filepath.Base(downloadURL): what follows the last "/" of the URL
BaseName(url) == IF Tail(url) = <<>> THEN <<"dl">> ELSE Tail(url)

\* main, lines 242-243
DownloadFilePath == Join(TempDir, BaseName(downloadURL))

\* main, lines 242-276: the file name, the temporary directory and the write probe
CheckTempDir ==
    /\ pc = "tempdir"
    /\ \E statOK \in BOOLEAN, mkdirOK \in BOOLEAN, writeOK \in BOOLEAN :
         LET st == Stat(fs, TempDir, statOK)
             made == IF st = "notexist" THEN MkdirAll(fs, TempDir, Perm0755, umask, mkdirOK)
                     ELSE [fs |-> fs, err |-> FALSE]
             testFile == Join(TempDir, <<"test_write">>)
             probe == OpenTrunc(made.fs, testFile, Perm0644, umask, writeOK)
             fatal == IF BaseName(downloadURL) \in {Dot, <<>>} THEN <<Error(249)>>
                      ELSE IF st = "notexist" /\ made.err THEN <<Error(260)>>
                      ELSE IF st = "error" THEN <<Error(264)>>
                      ELSE IF probe.err THEN <<Error(272)>>
                      ELSE <<>>
         IN /\ log' = log \o fatal
            /\ fs' = IF fatal = <<>> \/ fatal = <<Error(272)>> THEN made.fs ELSE fs
            /\ pc' = IF fatal = <<>> THEN "download" ELSE "exit"
            /\ exitCode' = IF fatal = <<>> THEN exitCode ELSE 1
    /\ UNCHANGED <<cfgVars, resVars, fs0, umask, extVars, pathVars>>

\* the content of a downloaded package
Package == <<"tar.gz">>

\* how downloadFile can end: os.Create fails, http.Get fails, the status is not
\* 200, io.Copy fails, or the package is written
DownloadOutcomes == {"create", "get", "status", "copy", "ok"}

\* downloadFile without the test of the status, line 664
downloadFileAnyStatus(f, path, mask, outcome) ==
    LET out == OpenTrunc(f, path, Perm0666, mask, outcome # "create") IN
    IF out.err THEN out
    ELSE IF outcome \in {"get", "copy"} THEN [fs |-> out.fs, err |-> TRUE]
    ELSE IF outcome = "status" THEN [fs |-> Write(out.fs, path, <<"404">>), err |-> FALSE]
    ELSE [fs |-> Write(out.fs, path, Package), err |-> FALSE]

\* downloadFile: the file it leaves at path, and its error
downloadFile(f, path, mask, outcome) ==
    LET out == OpenTrunc(f, path, Perm0666, mask, outcome # "create") IN
    IF out.err THEN out
    ELSE IF outcome \in {"get", "status", "copy"} THEN [fs |-> out.fs, err |-> TRUE]
    ELSE [fs |-> Write(out.fs, path, Package), err |-> FALSE]

\* main, lines 278-284, with the warning of line 670
Download ==
    /\ pc = "download"
    /\ \E outcome \in DownloadOutcomes, lengthKnown \in BOOLEAN :
         LET d == downloadFile(fs, DownloadFilePath, umask, outcome)
             warn == IF outcome \in {"copy", "ok"} /\ ~lengthKnown
                     THEN <<Warning(670)>> ELSE <<>>
         IN /\ fs' = d.fs
            /\ IF d.err THEN
                  /\ log' = Append(log \o warn, Error(281))
                  /\ pc' = "exit"
                  /\ exitCode' = 1
               ELSE
                  /\ log' = log \o warn
                  /\ pc' = "cleanup"
                  /\ exitCode' = exitCode
    /\ UNCHANGED <<cfgVars, resVars, fs0, umask, extVars, pathVars>>

---------------------------------------------------------------------------
(* Cleanup of the old installation *)

UsrLocal == <<Sep, "usr", Sep, "local">>
UsrLocalGo == <<Sep, "usr", Sep, "local", Sep, "go">>

\* the test of lines 291, 318 and 347
EffectiveRoot == rootMode /\ euid = 0

\* main, lines 286-311
Cleanup ==
    /\ pc = "cleanup"
    /\ installPath' = IF EffectiveRoot THEN UsrLocalGo ELSE installPath
    /\ \E statOK \in BOOLEAN, removeOK \in BOOLEAN, emptied \in BOOLEAN :
         LET cleanupPath == installPath'
             st == Stat(fs, cleanupPath, statOK)
         IN IF st # "notexist" THEN
               IF removeOK \/ cleanupPath \notin DOMAIN fs THEN
                  /\ fs' = RemoveAll(fs, cleanupPath)
                  /\ log' = log
               ELSE
                  \* RemoveAll failed: the directory is left, with or without
                  \* what was below it
                  /\ fs' = IF emptied
                           THEN Put(RemoveAll(fs, cleanupPath), cleanupPath, fs[cleanupPath])
                           ELSE fs
                  /\ log' = Append(log, Error(305))
            ELSE
               /\ fs' = fs
               /\ log' = log
    /\ pc' = "extract"
    /\ UNCHANGED <<exitCode, cfgVars, resVars, fs0, umask, header, nread, recorded,
                   pathVars>>

---------------------------------------------------------------------------
(* Archive extractor *)

\* the destination of lines 315-323 without the test of line 318
ExtractDestDirOfUser == Join(homeDir, <<".local">>)

\* main, lines 315-323
ExtractDestDir == IF EffectiveRoot THEN UsrLocal ELSE Join(homeDir, <<".local">>)

\* a tar header: name, type flag ("dir" for tar.TypeDir, "reg" for tar.TypeReg,
\* "symlink" for any other) and the permission bits of its mode
Header(name, typeflag, mode) == [Name |-> name, Typeflag |-> typeflag, Mode |-> mode]

NoHeader == Header(<<>>, "none", {})

\* the bytes of a regular file of the archive
FileBytes == <<"bytes">>

\* the call of an entry that fails for a reason outside the model, if any
EntryFailures == {"none", "stat", "mkdir", "chmod", "open", "copy"}

\* the test of line 763 with the separator left out
InsideDestDirNoSeparator(target, destDir) == HasPrefix(target, destDir)

\* the test of line 763
InsideDestDir(target, destDir) == HasPrefix(target, destDir \o <<Sep>>)

\* the body of the loop refusing an entry that is neither a directory nor a
\* regular file
ExtractEntryStrictTypes(f, destDir, h, mask, fail) ==
    LET target == Join(destDir, h.Name) IN
    IF ~InsideDestDir(target, destDir) THEN [fs |-> f, err |-> TRUE, illegal |-> TRUE]
    ELSE IF h.Typeflag = "dir" THEN
         LET st == Stat(f, target, fail # "stat")
             r == IF st = "notexist" THEN MkdirAll(f, target, h.Mode, mask, fail # "mkdir")
                  ELSE IF st = "error" THEN [fs |-> f, err |-> TRUE]
                  ELSE Chmod(f, target, h.Mode, fail # "chmod")
         IN [fs |-> r.fs, err |-> r.err, illegal |-> FALSE]
    ELSE IF h.Typeflag = "reg" THEN
         LET o == OpenTrunc(f, target, h.Mode, mask, fail # "open") IN
         IF o.err THEN [fs |-> f, err |-> TRUE, illegal |-> FALSE]
         ELSE IF fail = "copy" THEN [fs |-> o.fs, err |-> TRUE, illegal |-> FALSE]
         ELSE [fs |-> Write(o.fs, target, FileBytes), err |-> FALSE, illegal |-> FALSE]
    ELSE [fs |-> f, err |-> TRUE, illegal |-> FALSE]

\* extractTarGz, lines 760-791: the body of the loop for header h
ExtractEntry(f, destDir, h, mask, fail) ==
    LET target == Join(destDir, h.Name) IN
    IF ~InsideDestDir(target, destDir) THEN [fs |-> f, err |-> TRUE, illegal |-> TRUE]
    ELSE IF h.Typeflag = "dir" THEN
         LET st == Stat(f, target, fail # "stat")
             r == IF st = "notexist" THEN MkdirAll(f, target, h.Mode, mask, fail # "mkdir")
                  ELSE IF st = "error" THEN [fs |-> f, err |-> TRUE]
                  ELSE Chmod(f, target, h.Mode, fail # "chmod")
         IN [fs |-> r.fs, err |-> r.err, illegal |-> FALSE]
    ELSE IF h.Typeflag = "reg" THEN
         LET o == OpenTrunc(f, target, h.Mode, mask, fail # "open") IN
         IF o.err THEN [fs |-> f, err |-> TRUE, illegal |-> FALSE]
         ELSE IF fail = "copy" THEN [fs |-> o.fs, err |-> TRUE, illegal |-> FALSE]
         ELSE [fs |-> Write(o.fs, target, FileBytes), err |-> FALSE, illegal |-> FALSE]
    ELSE [fs |-> f, err |-> FALSE, illegal |-> FALSE]

\* main, lines 326-330, and extractTarGz, lines 737-749: the package is opened
\* and its gzip header read
ExtractOpen ==
    /\ pc = "extract"
    /\ \E openOK \in BOOLEAN, gzipOK \in BOOLEAN :
         IF openOK /\ gzipOK /\ IsFile(fs, DownloadFilePath) THEN
            /\ pc' = "extracting"
            /\ UNCHANGED <<exitCode, log>>
         ELSE
            /\ pc' = "exit"
            /\ exitCode' = 1
            /\ log' = Append(log, Error(328))
    /\ UNCHANGED <<cfgVars, resVars, envVars, extVars, pathVars>>

\* extractTarGz, lines 751-793, one turn of the loop, and main, lines 327-331
ExtractNext(Headers) ==
    /\ pc = "extracting"
    /\ \/ \* io.EOF
          /\ pc' = "rmpkg"
          /\ UNCHANGED <<exitCode, log, fs, header, nread, recorded>>
       \/ \* tr.Next() fails
          /\ pc' = "exit"
          /\ exitCode' = 1
          /\ log' = Append(log, Error(328))
          /\ UNCHANGED <<fs, header, nread, recorded>>
       \/ /\ nread < MaxEntries
          /\ \E h \in Headers, fail \in EntryFailures :
               LET r == ExtractEntry(fs, ExtractDestDir, h, umask, fail)
                   target == Join(ExtractDestDir, h.Name)
               IN /\ header' = h
                  /\ nread' = nread + 1
                  /\ fs' = r.fs
                  /\ recorded' = IF ~r.err /\ h.Typeflag \in {"dir", "reg"}
                                 THEN Put(recorded, target, h.Mode)
                                 ELSE recorded
                  /\ IF r.err THEN
                        /\ pc' = "exit"
                        /\ exitCode' = 1
                        /\ log' = Append(log, Error(328))
                     ELSE UNCHANGED <<pc, exitCode, log>>
    /\ UNCHANGED <<cfgVars, resVars, fs0, umask, installPath, pathVars>>

\* main, lines 333-341
RemovePackage ==
    /\ pc = "rmpkg"
    /\ \E ok \in BOOLEAN :
         IF ok /\ IsFile(fs, DownloadFilePath) THEN
            /\ fs' = Remove(fs, DownloadFilePath)
            /\ log' = log
         ELSE
            /\ fs' = fs
            /\ log' = Append(log, Warning(338))
    /\ pc' = "configure"
    /\ UNCHANGED <<exitCode, cfgVars, resVars, fs0, umask, extVars, pathVars>>

---------------------------------------------------------------------------
(* Environment configurator *)

\* filepath.Join(systemProfileDDirextory, systemGoProfileFilename) and its directory
SystemProfileDir == <<Sep, "etc", Sep, "profile.d">>
SystemGoProfilePath == Join(SystemProfileDir, <<"go.sh">>)

\* filepath.Join(homeDir, ".profile")
ProfilePath(home) == Join(home, <<".profile">>)

\* filepath.Join(installPath, "bin")
GoBinPath(install) == Join(install, <<"bin">>)

\* fmt.Sprintf("export PATH=\"%s:$PATH\"", goBinPath)
ExportLine(goBinPath) == <<"export PATH=\"">> \o goBinPath \o <<":$PATH\"">>

\* the call of a configuration that fails for a reason outside the model, if any
UserFailures == {"none", "stat", "create", "read", "open", "write"}
GlobalFailures == UserFailures \cup {"statdir"}

Configured(f, out, isManual, calls) ==
    [fs |-> f, out |-> out, manual |-> isManual, calls |-> calls]

\* the test of lines 396 and 479 made on the whole export line
ProfileHasExportLine(content, goBinPath) == Contains(content, ExportLine(goBinPath))

\* strings.Contains(string(content), goBinPath), lines 396 and 479
ProfileHasBinPath(content, goBinPath) == Contains(content, goBinPath)

\* lines 446-503 and 363-420: the profile file at path is created with the export
\* line, left alone when it holds goBinPath, or appended to; a failure is reported
\* at the line sites[step] gives and leaves the rest undone
EditProfile(f, path, goBinPath, mask, fail, sites) ==
    LET st == Stat(f, path, fail # "stat") IN
    IF st = "notexist" THEN
       LET c == OpenTrunc(f, path, Perm0666, mask, fail # "create") IN
       IF c.err THEN [fs |-> f, failed |-> <<Warning(sites.create)>>]
       ELSE IF fail = "write" THEN [fs |-> c.fs, failed |-> <<Warning(sites.write1)>>]
       ELSE [fs |-> Write(c.fs, path, ExportLine(goBinPath) \o <<"\n">>), failed |-> <<>>]
    ELSE IF st = "error" THEN [fs |-> f, failed |-> <<Warning(sites.stat)>>]
    ELSE IF fail = "read" \/ ~IsFile(f, path) THEN [fs |-> f, failed |-> <<Warning(sites.read)>>]
    ELSE IF ProfileHasBinPath(f[path].data, goBinPath) THEN [fs |-> f, failed |-> <<>>]
    ELSE IF fail = "open" THEN [fs |-> f, failed |-> <<Warning(sites.open)>>]
    ELSE IF fail = "write" THEN [fs |-> f, failed |-> <<Warning(sites.write2)>>]
    ELSE [fs |-> Write(f, path, <<"\n">> \o ExportLine(goBinPath) \o <<"\n">>),
          failed |-> <<>>]

UserSites ==
    [create |-> 452, write1 |-> 459, stat |-> 468, read |-> 475, open |-> 486,
     write2 |-> 493]

GlobalSites ==
    [create |-> 369, write1 |-> 376, stat |-> 385, read |-> 392, open |-> 403,
     write2 |-> 410]

\* configureUserPath, lines 438-504
configureUserPath(f, home, install, mask, fail) ==
    LET e == EditProfile(f, ProfilePath(home), GoBinPath(install), mask, fail, UserSites)
    IN Configured(e.fs, e.failed, e.failed # <<>>, 1)

\* the system-wide configuration giving up, without a call of configureUserPath,
\* when the directory cannot be found or checked
configureGlobalPathNoFallback(f, home, install, mask, fail, userFail) ==
    LET st == Stat(f, SystemProfileDir, fail # "statdir") IN
    IF st # "ok" THEN
       Configured(f, <<Error(IF st = "notexist" THEN 354 ELSE 358)>>, FALSE, 0)
    ELSE
       LET e == EditProfile(f, SystemGoProfilePath, GoBinPath(install), mask, fail,
                            GlobalSites)
       IN IF e.failed = <<>> THEN Configured(e.fs, <<>>, FALSE, 0)
          ELSE LET u == configureUserPath(e.fs, home, install, mask, userFail) IN
               Configured(u.fs, e.failed \o u.out, u.manual, 1)

\* main, lines 347-421: the system-wide configuration with its fall back to
\* configureUserPath
configureGlobalPath(f, home, install, mask, fail, userFail) ==
    LET st == Stat(f, SystemProfileDir, fail # "statdir") IN
    IF st # "ok" THEN
       LET u == configureUserPath(f, home, install, mask, userFail) IN
       Configured(u.fs, <<Error(IF st = "notexist" THEN 354 ELSE 358)>> \o u.out,
                  u.manual, 1)
    ELSE
       LET e == EditProfile(f, SystemGoProfilePath, GoBinPath(install), mask, fail,
                            GlobalSites)
       IN IF e.failed = <<>> THEN Configured(e.fs, <<>>, FALSE, 0)
          ELSE LET u == configureUserPath(e.fs, home, install, mask, userFail) IN
               Configured(u.fs, e.failed \o u.out, u.manual, 1)

\* main, lines 343-435 when the test of line 347 holds
ConfigureGlobal ==
    /\ pc = "configure"
    /\ EffectiveRoot
    /\ \E fail \in GlobalFailures, userFail \in UserFailures :
         LET r == configureGlobalPath(fs, homeDir, installPath, umask, fail, userFail) IN
         /\ fs' = r.fs
         /\ log' = log \o r.out
         /\ manual' = (manual \/ r.manual)
         /\ userCalls' = userCalls + r.calls
    /\ pc' = "done"
    /\ exitCode' = 0
    /\ UNCHANGED <<cfgVars, resVars, fs0, umask, extVars, runs>>

\* main, lines 343-435 when the test of line 347 fails
ConfigureUser ==
    /\ pc = "configure"
    /\ ~EffectiveRoot
    /\ \E fail \in UserFailures :
         LET r == configureUserPath(fs, homeDir, installPath, umask, fail) IN
         /\ fs' = r.fs
         /\ log' = log \o (IF rootMode THEN <<Warning(425)>> ELSE <<>>) \o r.out
         /\ manual' = (manual \/ r.manual)
         /\ userCalls' = userCalls + r.calls
    /\ pc' = "done"
    /\ exitCode' = 0
    /\ UNCHANGED <<cfgVars, resVars, fs0, umask, extVars, runs>>

\* the tool is run again with the same flags on the filesystem the last run
\* left: the new run, its output empty so far, is taken up where it reaches the
\* PATH configuration
RunAgain ==
    /\ pc = "done"
    /\ runs < MaxRuns
    /\ runs' = runs + 1
    /\ pc' = "configure"
    /\ exitCode' = -1
    /\ log' = <<>>
    /\ UNCHANGED <<cfgVars, resVars, envVars, extVars, userCalls, manual>>

---------------------------------------------------------------------------
(* Filesystems a run can start on *)

DirNode == Node("dir", Perm0755, <<>>)

\* f with a directory at each path of paths
WithDirs(f, paths) == [q \in DOMAIN f \cup paths |-> IF q \in DOMAIN f THEN f[q] ELSE DirNode]

Home == <<Sep, "h">>
DotLocal == Join(Home, <<".local">>)
HomeGo == Join(DotLocal, <<"go">>)

\* the directories every start has: /, the home directory, /usr/local and /etc
BaseFS ==
    WithDirs(<<>>, {Root, Home, <<Sep, "usr">>, UsrLocal, <<Sep, "etc">>})

\* an installation made by an earlier run at install, with its go command
WithInstall(f, install) ==
    Put(WithDirs(f, Lineage(GoBinPath(install))),
        Join(GoBinPath(install), <<"go">>), Node("file", Perm0600, <<"old">>))

\* profile contents: a line of something else, a remark that holds the bin path,
\* the export line of an earlier run, and a longer path that starts like it
ProfileTexts(install) ==
    { <<>>,
      <<"umask 022", "\n">>,
      <<"# ">> \o GoBinPath(install) \o <<"\n">>,
      ExportLine(GoBinPath(install)) \o <<"\n">>,
      <<"# ">> \o install \o <<Sep, "bin2", "\n">>,
      <<"# ">> \o install \o <<"\n">> }

WithProfile(f, path, text) == Put(f, path, Node("file", Perm0644, text))

---------------------------------------------------------------------------
(* Specifications *)

InitLocals ==
    /\ pc = "detect"
    /\ exitCode = -1
    /\ log = <<>>
    /\ goArch = ""
    /\ homeDir = <<>>
    /\ allVersions = NilVersions
    /\ versionToInstall = <<>>
    /\ downloadURL = <<>>
    /\ foundDownloadable = FALSE
    /\ textCalls = 0
    /\ textResp = [kind |-> "none", body |-> <<>>]
    /\ synthesized = FALSE
    /\ installPath = <<>>
    /\ header = NoHeader
    /\ nread = 0
    /\ recorded = <<>>
    /\ userCalls = 0
    /\ manual = FALSE
    /\ runs = 1

\* the resolver: main up to the confirmed download URL
InitResolve ==
    /\ InitLocals
    /\ GOOS \in {"linux", "darwin"}
    /\ targetVersions \in TargetLists
    /\ rootMode = FALSE
    /\ euid = 1000
    /\ fs = WithDirs(BaseFS, {TempDir})
    /\ fs0 = fs
    /\ umask = {"g+w", "o+w"}

NextResolve ==
    \/ GetSystemInfo
    \/ UserHomeDir
    \/ FetchVersions(CatalogResponses)
    \/ ResolveRequested
    \/ ResolveLatest(TextResponses)

SpecResolve == InitResolve /\ [][NextResolve]_vars

\* the locals of main after a resolution of the latest version from a catalog
\* that holds go1.2.0 with an archive for the host, nothing printed so far
ResolvedLocals ==
    /\ exitCode = -1
    /\ log = <<>>
    /\ GOOS = "linux"
    /\ targetVersions = <<>>
    /\ goArch = "amd64"
    /\ homeDir = Home
    /\ allVersions = <<VersionInfo(GoPrefix \o V120, TRUE, <<FileA>>)>>
    /\ versionToInstall = V120
    /\ downloadURL = FileURL(FileA.Filename)
    /\ foundDownloadable = TRUE
    /\ textCalls = 0
    /\ textResp = [kind |-> "none", body |-> <<>>]
    /\ synthesized = FALSE
    /\ userCalls = 0
    /\ manual = FALSE
    /\ runs = 1

\* the usual umask 022, and none
Umasks == {{"g+w", "o+w"}, {}}

\* f with the downloaded package in the temporary directory
WithPackage(f, mask) ==
    Put(WithDirs(f, {TempDir}), Join(TempDir, FileA.Filename),
        Node("file", Perm0666 \ mask, Package))

\* entry names of an archive: the tree of the distribution, a name that climbs
\* out of the destination, a sibling of the destination that starts with its
\* name, the destination itself, and a file next to the tree
NameGo == <<"go", Sep>>
NameGoBin == <<"go", Sep, "bin">>
NameGoBinGo == <<"go", Sep, "bin", Sep, "go">>
NameClimb == <<".", ".", Sep, ".", ".", Sep, "e">>
NameSibling == <<".", ".", Sep, ".local", "x">>
NameSelf == <<".">>
NameTool == <<"tool">>

Headers ==
    { Header(NameGo, "dir", Perm0755),
      Header(NameGoBin, "dir", Perm0775),
      Header(NameGoBinGo, "reg", Perm0755),
      Header(NameGoBinGo, "reg", Perm0644),
      Header(NameGoBinGo, "symlink", Perm0755),
      Header(NameClimb, "symlink", Perm0755),
      Header(NameTool, "reg", Perm0755),
      Header(NameClimb, "reg", Perm0644),
      Header(NameSibling, "reg", Perm0644),
      Header(NameSelf, "dir", Perm0775) }

\* what cleanup can leave below the home directory: no .local, an empty .local,
\* a .local with a file of the user, and an old installation that could not be
\* removed
ExtractStarts ==
    { BaseFS,
      WithDirs(BaseFS, {DotLocal}),
      Put(WithDirs(BaseFS, {DotLocal}), Join(DotLocal, NameTool),
          Node("file", Perm0600, <<"old">>)),
      WithInstall(BaseFS, HomeGo) }

\* the extractor: main from the call of extractTarGz to the removal of the package
InitExtract ==
    /\ pc = "extract"
    /\ ResolvedLocals
    /\ rootMode = FALSE
    /\ euid = 1000
    /\ installPath = HomeGo
    /\ umask \in Umasks
    /\ fs \in {WithPackage(f, umask) : f \in ExtractStarts}
    /\ fs0 = fs
    /\ header = NoHeader
    /\ nread = 0
    /\ recorded = <<>>

NextExtract ==
    \/ ExtractOpen
    \/ ExtractNext(Headers)
    \/ RemovePackage

SpecExtract == InitExtract /\ [][NextExtract]_vars

\* the profiles a run can find
UserProfiles(f, install) ==
    {f} \cup {WithProfile(f, ProfilePath(Home), t) : t \in ProfileTexts(install)}

SystemProfiles(f, install) ==
    {f, WithDirs(f, {SystemProfileDir})}
    \cup {WithProfile(WithDirs(f, {SystemProfileDir}), SystemGoProfilePath, t) :
            t \in ProfileTexts(install)}

\* the configurator: main from the PATH configuration on, run after run
InitConfig ==
    /\ pc = "configure"
    /\ ResolvedLocals
    /\ rootMode \in BOOLEAN
    /\ euid \in {0, 1000}
    /\ installPath = IF EffectiveRoot THEN UsrLocalGo ELSE HomeGo
    /\ umask = {"g+w", "o+w"}
    /\ \E base \in UserProfiles(WithDirs(WithInstall(BaseFS, installPath), {TempDir}),
                                installPath) :
         fs \in IF EffectiveRoot THEN SystemProfiles(base, installPath) ELSE {base}
    /\ fs0 = fs
    /\ header = NoHeader
    /\ nread = 0
    /\ recorded = <<>>

NextConfig ==
    \/ ConfigureGlobal
    \/ ConfigureUser
    \/ RunAgain

SpecConfig == InitConfig /\ [][NextConfig]_vars

\* the filesystems extraction can leave for a run with the given install path:
\* the installation, the package in the temporary directory, and the profiles
FinishStarts(install, root) ==
    UNION { IF root THEN SystemProfiles(base, install) ELSE {base} :
              base \in UserProfiles(
                          WithPackage(WithInstall(BaseFS, install), {"g+w", "o+w"}),
                          install) }

\* the end of a run: main from the removal of the package, after extractTarGz
\* returned nil, to the end
InitFinish ==
    /\ pc = "rmpkg"
    /\ ResolvedLocals
    /\ rootMode \in BOOLEAN
    /\ euid \in {0, 1000}
    /\ installPath = IF EffectiveRoot THEN UsrLocalGo ELSE HomeGo
    /\ umask = {"g+w", "o+w"}
    /\ fs \in FinishStarts(installPath, EffectiveRoot)
    /\ fs0 = fs
    /\ header = Header(NameGoBinGo, "reg", Perm0755)
    /\ nread = 3
    /\ recorded = <<>>

NextFinish ==
    \/ RemovePackage
    \/ ConfigureGlobal
    \/ ConfigureUser

SpecFinish == InitFinish /\ [][NextFinish]_vars

\* a whole run of the tool
RunCatalogResponses ==
    { [kind |-> "transport", versions |-> <<>>],
      [kind |-> "ok", versions |-> <<VersionInfo(GoPrefix \o V120, TRUE, <<FileA>>)>>],
      [kind |-> "ok", versions |-> <<VersionInfo(GoPrefix \o V130, TRUE, <<FileDarwin>>)>>] }

RunHeaders ==
    { Header(NameGo, "dir", Perm0755),
      Header(NameClimb, "reg", Perm0644) }

RunStarts ==
    { BaseFS,
      WithProfile(WithDirs(WithInstall(WithInstall(BaseFS, HomeGo), UsrLocalGo),
                           {TempDir, SystemProfileDir}),
                  ProfilePath(Home), <<"umask 022", "\n">>) }

Init ==
    /\ InitLocals
    /\ GOOS = "linux"
    /\ targetVersions \in {<<>>, <<V12>>}
    /\ rootMode \in BOOLEAN
    /\ euid \in {0, 1000}
    /\ fs \in RunStarts
    /\ fs0 = fs
    /\ umask = {"g+w", "o+w"}

Next ==
    \/ GetSystemInfo
    \/ UserHomeDir
    \/ FetchVersions(RunCatalogResponses)
    \/ ResolveRequested
    \/ ResolveLatest(TextResponses)
    \/ CheckTempDir
    \/ Download
    \/ Cleanup
    \/ ExtractOpen
    \/ ExtractNext(RunHeaders)
    \/ RemovePackage
    \/ ConfigureGlobal
    \/ ConfigureUser

Spec == Init /\ [][Next]_vars

---------------------------------------------------------------------------
(* Vocabulary of the properties, stated without the operators of the code *)

Dots(s) == Cardinality({i \in DOMAIN s : s[i] = "."})

\* a requested version as the resolver is to understand it
Normalized(s) == IF Dots(s) = 1 THEN s \o <<".", "0">> ELSE s

\* a catalog version without its "go" prefix
Stripped(v) ==
    IF Len(v) >= 2 /\ v[1] = "g" /\ v[2] = "o"
    THEN [i \in 1..(Len(v) - 2) |-> v[i + 2]]
    ELSE v

HostFile(f) == f.OS = GOOS /\ f.Arch = goArch /\ f.Kind = "archive"

HostFiles(e) == {j \in DOMAIN e.Files : HostFile(e.Files[j])}

Least(S) == CHOOSE x \in S : \A y \in S : x <= y

\* the first artifact of entry e for the host
FirstHostFile(e) == e.Files[Least(HostFiles(e))]

\* the catalog entries that carry version n and an artifact for the host
VersionHits(n) ==
    IF allVersions.nil THEN {}
    ELSE {i \in DOMAIN allVersions.list :
            /\ Stripped(allVersions.list[i].Version) = n
            /\ HostFiles(allVersions.list[i]) # {}}

\* the stable catalog entries that carry an artifact for the host
StableHits ==
    IF allVersions.nil THEN {}
    ELSE {i \in DOMAIN allVersions.list :
            /\ allVersions.list[i].Stable
            /\ HostFiles(allVersions.list[i]) # {}}

TemplateURL(n) ==
    <<"https://go.dev/dl/", "g", "o">> \o n \o <<".", GOOS, "-", goArch, ".tar.gz">>

Requested == Len(targetVersions) > 0

\* the run has left the resolution stage (an exit before it leaves goArch or
\* homeDir unset)
PastResolution ==
    /\ pc \notin {"detect", "home", "fetch", "resolve"}
    /\ goArch # ""
    /\ homeDir # <<>>

---------------------------------------------------------------------------
(* C1: when a version is requested and the catalog has an entry of that    *)
(* (normalized) version with an archive for the host OS and mapped         *)
(* architecture, the resolved URL is https://go.dev/dl/ followed by the    *)
(* filename of the first such artifact of the entry (the first such entry  *)
(* in catalog order), the resolved version is the entry's version without  *)
(* its prefix, and no URL is synthesized.  The requested version is the    *)
(* first -v value, the one the resolver looks at.                          *)
C1_CatalogMatchGivesArtifactURL ==
    (Requested /\ PastResolution /\ VersionHits(Normalized(targetVersions[1])) # {}) =>
        LET e == allVersions.list[Least(VersionHits(Normalized(targetVersions[1])))] IN
        /\ foundDownloadable
        /\ downloadURL = <<"https://go.dev/dl/">> \o FirstHostFile(e).Filename
        /\ versionToInstall = Stripped(e.Version)
        /\ ~synthesized

\* an abbreviated request resolved to an artifact that is not the first file of
\* its entry
C1_Witness ==
    /\ Requested /\ PastResolution
    /\ targetVersions[1] = V12
    /\ VersionHits(V120) # {}
    /\ Least(HostFiles(allVersions.list[Least(VersionHits(V120))])) > 1
    /\ downloadURL = <<"https://go.dev/dl/">> \o FileB.Filename

(* C2: when a version is requested and no catalog entry with an artifact   *)
(* for the host matches it (catalog nil, version absent, or present        *)
(* without a host artifact), the resolution step ends with the normalized  *)
(* requested version and the URL built from the template, without a GET of *)
(* the plaintext endpoint and without exiting; the "No matching Go         *)
(* version" exit of line 181 is never taken.                               *)
C2_RequestedNeverFails ==
    [][(pc = "resolve" /\ Requested /\ VersionHits(Normalized(targetVersions[1])) = {}) =>
          /\ pc' = "tempdir"
          /\ exitCode' = -1
          /\ foundDownloadable'
          /\ versionToInstall' = Normalized(targetVersions[1])
          /\ downloadURL' = TemplateURL(Normalized(targetVersions[1]))
          /\ textCalls' = 0
          /\ \A i \in DOMAIN log' : log'[i] # Error(181)]_vars

\* a requested version present in the catalog without a host artifact, resolved
\* by the template
C2_Witness ==
    /\ Requested /\ PastResolution
    /\ ~allVersions.nil
    /\ \E i \in DOMAIN allVersions.list :
          /\ Stripped(allVersions.list[i].Version) = Normalized(targetVersions[1])
          /\ HostFiles(allVersions.list[i]) = {}
    /\ VersionHits(Normalized(targetVersions[1])) = {}
    /\ synthesized
    /\ downloadURL = TemplateURL(Normalized(targetVersions[1]))

(* C3: a requested version with exactly one dot is normalized by appending *)
(* ".0", any other is left as it is, and normalizing twice changes         *)
(* nothing; a catalog entry matches exactly when its version without the   *)
(* "go" prefix equals the normalized string; the resolved version of a     *)
(* requested run is that normalized string, and it is the one in a         *)
(* synthesized URL.                                                        *)
C3_VersionMatchingRule ==
    /\ \A k \in DOMAIN targetVersions :
          /\ NormalizeVersion(targetVersions[k]) = Normalized(targetVersions[k])
          /\ NormalizeVersion(NormalizeVersion(targetVersions[k]))
                = NormalizeVersion(targetVersions[k])
          /\ \A i \in DOMAIN allVersions.list :
                VersionMatches(allVersions.list[i], NormalizeVersion(targetVersions[k]))
                   <=> Stripped(allVersions.list[i].Version) = Normalized(targetVersions[k])
    /\ (Requested /\ PastResolution) =>
          /\ versionToInstall = Normalized(targetVersions[1])
          /\ synthesized <=> VersionHits(Normalized(targetVersions[1])) = {}
          /\ synthesized => downloadURL = TemplateURL(Normalized(targetVersions[1]))

\* "1.2" resolved as 1.2.0 against a catalog that holds go1.2 and 1.2.0
C3_Witness ==
    /\ Requested /\ PastResolution
    /\ targetVersions[1] = V12
    /\ versionToInstall = V120
    /\ ~synthesized
    /\ \E i \in DOMAIN allVersions.list : allVersions.list[i].Version = <<"g", "o">> \o V12

(* C4: with no version requested and a catalog holding a stable entry with *)
(* an archive for the host, the result is the first such entry in catalog  *)
(* order with the URL of its first matching artifact, and the plaintext    *)
(* endpoint is never contacted; an entry that is not stable is never       *)
(* selected.                                                               *)
C4_LatestPrefersCatalog ==
    /\ (~Requested /\ StableHits # {}) => textCalls = 0
    /\ (~Requested /\ StableHits # {} /\ pc # "resolve") =>
          LET e == allVersions.list[Least(StableHits)] IN
          /\ foundDownloadable
          /\ downloadURL = <<"https://go.dev/dl/">> \o FirstHostFile(e).Filename
          /\ versionToInstall = Stripped(e.Version)
          /\ ~synthesized
    /\ (~Requested /\ foundDownloadable /\ ~synthesized) => StableHits # {}

\* the first stable host entry is the second of the catalog, behind an unstable
\* entry that also has a host artifact
C4_Witness ==
    /\ ~Requested /\ foundDownloadable
    /\ StableHits # {}
    /\ Least(StableHits) = 2
    /\ ~allVersions.list[1].Stable
    /\ HostFiles(allVersions.list[1]) # {}

(* C9: with several -v values, the candidate resolved is the first one, in *)
(* the order given, that has a catalog entry with a host artifact.         *)
C9_FirstMatchingCandidate ==
    (Requested /\ PastResolution) =>
        LET cands == {k \in DOMAIN targetVersions :
                        VersionHits(Normalized(targetVersions[k])) # {}}
        IN cands # {} =>
              /\ versionToInstall = Normalized(targetVersions[Least(cands)])
              /\ ~synthesized

---------------------------------------------------------------------------
(* Vocabulary of the properties of the later stages *)

\* the characters of body that are not white space
Ink(body) == {i \in DOMAIN body : body[i] \notin {" ", "\n", "\t", "\r"}}

\* the plaintext call fails: no answer with status 200 that could be read, or
\* the first line of the answer does not start with "go"
TextFails(resp) ==
    \/ resp.kind # "ok"
    \/ Ink(resp.body) = {}
    \/ LET i == Least(Ink(resp.body)) IN
       ~(i + 1 <= Len(resp.body) /\ resp.body[i] = "g" /\ resp.body[i + 1] = "o")

BeforeResolution == pc \in {"detect", "home", "fetch"}

\* p lies strictly inside directory d: d and a separator start it
Under(p, d) ==
    /\ Len(p) > Len(d)
    /\ \A i \in DOMAIN d : p[i] = d[i]
    /\ p[Len(d) + 1] = "/"

\* the paths that exist or look different in g when compared with f
Touched(f, g) ==
    {p \in DOMAIN f \cup DOMAIN g : p \notin DOMAIN f \/ p \notin DOMAIN g \/ f[p] # g[p]}

\* the directory the archive is unpacked into
Destination ==
    IF rootMode /\ euid = 0 THEN <<"/", "usr", "/", "local">>
    ELSE homeDir \o <<"/", ".local">>

\* the directories from p up to the root
Ancestors(p) == {SubSeq(p, 1, k) : k \in {j \in 1..Len(p) : j = Len(p) \/ p[j + 1] = "/"}}

Occurrences(sub, s) ==
    {i \in 0..(Len(s) - Len(sub)) : \A j \in DOMAIN sub : s[i + j] = sub[j]}

BinPath == installPath \o <<"/", "bin">>

ExportText == <<"export PATH=\"">> \o BinPath \o <<":$PATH\"">>

UserProfile == homeDir \o <<"/", ".profile">>

SystemProfile == <<"/", "etc", "/", "profile.d", "/", "go.sh">>

\* the profile a run that meets no failure writes to
TargetProfile == IF rootMode /\ euid = 0 THEN SystemProfile ELSE UserProfile

HoldsBinPath(f, p) ==
    p \in DOMAIN f /\ f[p].kind = "file" /\ Occurrences(BinPath, f[p].data) # {}

\* no configuration so far has met a failure
AllSucceeded == ~manual /\ ((rootMode /\ euid = 0) => userCalls = 0)

---------------------------------------------------------------------------
C6_NoPathOutsideDestination ==
    [][(pc = "extracting" /\ nread' = nread + 1) =>
          LET target == Join(Destination, header'.Name) IN
          /\ \A p \in Touched(fs, fs') :
                /\ Under(target, Destination)
                /\ p \in DOMAIN fs'
                /\ \/ p = target
                   \/ p \in Ancestors(target) /\ p \notin DOMAIN fs /\ fs'[p].kind = "dir"
          /\ ~Under(target, Destination) =>
                (pc' = "exit" /\ exitCode' = 1 /\ fs' = fs)]_vars

\* after the tree was begun, a sibling of the destination is refused
C6_Witness ==
    /\ pc = "exit"
    /\ exitCode = 1
    /\ nread >= 2
    /\ header.Name = NameSibling
    /\ Join(Destination, NameGo) \in DOMAIN fs
    /\ Join(Destination, NameGo) \notin DOMAIN fs0
    /\ Home \o <<"/", ".local", "x">> \notin DOMAIN fs

(* C7: after a successful extraction every directory and regular file that *)
(* an entry named has the mode of the last entry that named it.            *)
C7_ModesAsRecorded ==
    (pc = "rmpkg") =>
        \A p \in DOMAIN recorded : p \in DOMAIN fs /\ fs[p].mode = recorded[p]

(* C8: a PATH configuration leaves a profile that holds the bin path       *)
(* anywhere as it is, byte for byte; and after one or more configurations  *)
(* in a row that met no failure, started on a target profile that was      *)
(* absent or did not hold the bin path, the profile is its old content     *)
(* followed by the export line, which occurs in it exactly once.           *)
C8_PathConfigurationIdempotent ==
    /\ [][\A p \in {UserProfile, SystemProfile} :
             HoldsBinPath(fs, p) => (p \in DOMAIN fs' /\ fs'[p] = fs[p])]_vars
    /\ [](( /\ pc = "done"
            /\ AllSucceeded
            /\ ~HoldsBinPath(fs0, TargetProfile)
            /\ (TargetProfile \in DOMAIN fs0 => fs0[TargetProfile].kind = "file") ) =>
              /\ TargetProfile \in DOMAIN fs
              /\ Cardinality(Occurrences(ExportText, fs[TargetProfile].data)) = 1
              /\ fs[TargetProfile].data =
                    (IF TargetProfile \in DOMAIN fs0
                     THEN fs0[TargetProfile].data \o <<"\n">> ELSE <<>>)
                    \o ExportText \o <<"\n">>)

\* the third configuration in a row on a profile that had another line
C8_Witness ==
    /\ pc = "done"
    /\ runs >= 3
    /\ AllSucceeded
    /\ TargetProfile \in DOMAIN fs0
    /\ fs0[TargetProfile].data # <<>>
    /\ ~HoldsBinPath(fs0, TargetProfile)
    /\ Cardinality(Occurrences(ExportText, fs[TargetProfile].data)) = 1

(* C10: a step of the run that prints an "Error:" line ends the run with   *)
(* status 1; what the run survives is printed as a "Warning:".             *)
C10_ErrorLinesAreFatal ==
    [][(\E i \in (Len(log) + 1)..Len(log') : log'[i].level = "Error") =>
          (pc' = "exit" /\ exitCode' = 1)]_vars

---------------------------------------------------------------------------
(* Vocabulary of the properties of the configuration *)

\* the lines a step prints
Printed == {log'[i] : i \in (Len(log) + 1)..Len(log')}

\* a step of the system-wide configuration fails: the directory cannot be
\* found or checked, or the file cannot be checked, created, read, opened or
\* written
SystemStepFailed ==
    Printed \cap ( {[level |-> "Error", site |-> n] : n \in {354, 358}}
                   \cup {[level |-> "Warning", site |-> n] :
                           n \in {369, 376, 385, 392, 403, 410}} ) # {}

\* a step of the user-scoped configuration fails
UserStepFailed ==
    Printed \cap {[level |-> "Warning", site |-> n] :
                    n \in {452, 459, 468, 475, 486, 493}} # {}

\* path is the same in f and g: absent in both, or equal
SameAt(f, g, path) ==
    IF path \in DOMAIN f THEN path \in DOMAIN g /\ g[path] = f[path]
    ELSE path \notin DOMAIN g

---------------------------------------------------------------------------
(* C11: once extraction has succeeded the run does not end with a status   *)
(* other than 0: the removal of the package leads to the configuration,    *)
(* the configuration to the end with status 0, whatever fails.  With the   *)
(* root flag set and euid 0, the user-scoped configuration is called       *)
(* exactly once when the system profile directory is missing or a step of  *)
(* the system-wide configuration fails, and otherwise not at all, the user *)
(* profile staying as it was; without effective root it is called once and *)
(* the system profile stays as it was.  The manual instructions are        *)
(* printed exactly when a step of the user-scoped configuration fails.     *)
C11_FallbackChainNeverFatal ==
    [][/\ (pc = "rmpkg") => (pc' = "configure" /\ exitCode' = -1)
       /\ (pc = "configure") =>
             /\ pc' = "done"
             /\ exitCode' = 0
             /\ IF rootMode /\ euid = 0
                THEN IF <<"/", "etc", "/", "profile.d">> \notin DOMAIN fs
                        \/ SystemStepFailed
                     THEN userCalls' = userCalls + 1
                     ELSE /\ userCalls' = userCalls
                          /\ SameAt(fs, fs', UserProfile)
                          /\ ~manual'
                ELSE /\ userCalls' = userCalls + 1
                     /\ SameAt(fs, fs', SystemProfile)
             /\ manual' <=> UserStepFailed
             /\ UserStepFailed => (userCalls' = userCalls + 1)
       /\ (pc = "done") => (exitCode = 0)]_vars

\* the system profile could not be opened for appending, the user profile could
\* not be written, and the run ended with status 0 and the manual instructions
C11_Witness ==
    /\ pc = "done"
    /\ exitCode = 0
    /\ rootMode /\ euid = 0
    /\ userCalls = 1
    /\ manual
    /\ \E i \in DOMAIN log : log[i] = [level |-> "Warning", site |-> 403]
    /\ \E i \in DOMAIN log : log[i] = [level |-> "Warning", site |-> 493]

---------------------------------------------------------------------------
(* Vocabulary of the properties of the pipeline *)

\* the install path of the run: /usr/local/go with the root flag set and euid
\* 0, <home>/.local/go otherwise
InstallRoot ==
    IF rootMode /\ euid = 0 THEN <<"/", "usr", "/", "local", "/", "go">>
    ELSE homeDir \o <<"/", ".local", "/", "go">>

(* C12: when extractTarGz is called, nothing exists at the install path.   *)
C12_InstallPathClearedBeforeExtraction ==
    (pc = "extract") => (InstallRoot \notin DOMAIN fs)

\* the directory that holds the install path
InstallParent == SubSeq(InstallRoot, 1, Len(InstallRoot) - 2)

\* the export line for the bin directory of the install path
ExportOfInstallRoot ==
    <<"export PATH=\"">> \o InstallRoot \o <<"/", "bin">> \o <<":$PATH\"">>

(* C13: the root flag counts only with euid 0, and one choice rules the     *)
(* whole run.  With both, the path cleaned up and installed to is           *)
(* /usr/local/go, the archive is unpacked into /usr/local and the           *)
(* system-wide profile is tried (it ends holding the bin path, or a failure *)
(* of the system-wide configuration is printed); otherwise they are         *)
(* <home>/.local/go and <home>/.local, and the system profile is neither    *)
(* tried nor changed.  Cleanup removes nothing outside the install path,    *)
(* extraction writes nothing outside its parent directory, and what a       *)
(* profile gains is the export line of <install path>/bin.                  *)
C13_RootToggleConsistent ==
    [][/\ (pc = "cleanup") =>
             /\ installPath' = InstallRoot
             /\ \A p \in Touched(fs, fs') : p = InstallRoot \/ Under(p, InstallRoot)
       /\ (pc \in {"extract", "extracting", "rmpkg", "configure"}) =>
             (installPath = InstallRoot /\ installPath' = InstallRoot)
       /\ (pc = "extracting") =>
             \A p \in Touched(fs, fs') : p = InstallParent \/ Under(p, InstallParent)
       /\ (pc = "configure") =>
             /\ \A p \in Touched(fs, fs') :
                   /\ p \in {UserProfile, SystemProfile}
                   /\ (fs'[p].data # <<>>) =>
                         Occurrences(ExportOfInstallRoot \o <<"\n">>, fs'[p].data)
                            = {Len(fs'[p].data) - Len(ExportOfInstallRoot) - 1}
             /\ IF rootMode /\ euid = 0
                THEN \/ SystemStepFailed
                     \/ /\ SystemProfile \in DOMAIN fs'
                        /\ Occurrences(InstallRoot \o <<"/", "bin">>,
                                       fs'[SystemProfile].data) # {}
                        /\ SameAt(fs, fs', UserProfile)
                ELSE /\ ~SystemStepFailed
                     /\ SameAt(fs, fs', SystemProfile)
                     /\ userCalls' = userCalls + 1]_vars

\* a run as root with the flag: the old /usr/local/go is gone, the new tree is
\* in /usr/local, the system profile exports /usr/local/go/bin and the user
\* profile is as it was
C13_Witness ==
    /\ pc = "done"
    /\ rootMode /\ euid = 0
    /\ <<"/", "usr", "/", "local", "/", "go", "/", "bin">> \in DOMAIN fs0
    /\ <<"/", "usr", "/", "local", "/", "go", "/", "bin">> \notin DOMAIN fs
    /\ <<"/", "usr", "/", "local", "/", "go">> \in DOMAIN fs
    /\ SystemProfile \in DOMAIN fs
    /\ fs[SystemProfile].data = ExportOfInstallRoot \o <<"\n">>
    /\ SameAt(fs0, fs, UserProfile)
    /\ SameAt(fs0, fs, homeDir \o <<"/", ".local", "/", "go", "/", "bin">>)

\* the downloaded package: the last element of the URL, in the temporary directory
Archive == <<"/", "tmp", "/">> \o Tail(downloadURL)

\* p is d or lies inside it
InOrUnder(p, d) == p = d \/ Under(p, d)

\* the places an installation can be at, and the profile files
InstallRoots ==
    {<<"/", "usr", "/", "local", "/", "go">>, <<"/", "h", "/", ".local", "/", "go">>}

ProfileFiles == {<<"/", "h", "/", ".profile">>, SystemProfile}

(* C14: the side effects of a run come in the order of the pipeline.  Up to *)
(* and including the download no step touches an installation or a profile  *)
(* file, so a run that ends there leaves them as they were; cleanup starts  *)
(* with the whole package in the temporary directory; no step up to and     *)
(* including extraction touches a profile file; and an extraction that      *)
(* fails ends the run with status 1 with the package still in place.        *)
C14_SideEffectsInPipelineOrder ==
    [][/\ (pc \in {"detect", "home", "fetch", "resolve", "tempdir", "download"}) =>
             /\ \A p \in Touched(fs, fs') :
                   /\ p \notin ProfileFiles
                   /\ \A r \in InstallRoots : ~InOrUnder(p, r)
             /\ pc' \in {"home", "fetch", "resolve", "tempdir", "download", "cleanup",
                         "exit"}
             /\ (pc' = "exit") => (exitCode' = 1)
             /\ (pc' = "cleanup") =>
                   (Archive \in DOMAIN fs' /\ fs'[Archive].data = <<"tar.gz">>)
       /\ (pc \in {"cleanup", "extract", "extracting", "rmpkg"}) =>
             \A p \in ProfileFiles : SameAt(fs, fs', p)
       /\ (pc \in {"extract", "extracting"} /\ pc' \notin {"extracting", "rmpkg"}) =>
             /\ pc' = "exit"
             /\ exitCode' = 1
             /\ Archive \in DOMAIN fs'
             /\ fs'[Archive].data = <<"tar.gz">>
       /\ (pc = "exit") => (pc' = "exit" /\ fs' = fs)]_vars

\* an extraction that fails on its third entry: the old installation is gone,
\* the package is in the temporary directory, the profile is as it was
C14_Witness ==
    /\ pc = "exit"
    /\ exitCode = 1
    /\ nread = 3
    /\ header.Name = NameClimb
    /\ Archive \in DOMAIN fs
    /\ <<"/", "h", "/", ".local", "/", "go", "/", "bin">> \in DOMAIN fs0
    /\ <<"/", "h", "/", ".local", "/", "go", "/", "bin">> \notin DOMAIN fs
    /\ <<"/", "h", "/", ".profile">> \in DOMAIN fs
    /\ fs[<<"/", "h", "/", ".profile">>] = fs0[<<"/", "h", "/", ".profile">>]

---------------------------------------------------------------------------
(* C15: the turn of the extraction loop that fails ends the run with       *)
(* status 1 and nothing follows it; whatever the entries before it made    *)
(* stays as it is (only the path of the failing entry itself can differ);  *)
(* an entry that is neither a directory nor a regular file changes nothing *)
(* and extraction goes on, unless its path is outside the destination,     *)
(* which ends extraction like for any other entry.                         *)
C15_AbortWithoutRollback ==
    [][/\ (pc = "extracting" /\ nread' = nread + 1) =>
             LET target == Join(Destination, header'.Name) IN
             /\ pc' \in {"extracting", "exit"}
             /\ (pc' = "exit") =>
                   /\ exitCode' = 1
                   /\ \A p \in DOMAIN fs : (p # target) => SameAt(fs, fs', p)
             /\ (header'.Typeflag \notin {"dir", "reg"}) =>
                   /\ fs' = fs
                   /\ (pc' = "extracting") <=> Under(target, Destination)
       /\ (pc = "exit") => (pc' = "exit" /\ fs' = fs /\ nread' = nread)]_vars

\* the third entry, a regular file, cannot be written: the two directories made
\* before it stay, and so does the file cut to nothing
C15_Witness ==
    /\ pc = "exit"
    /\ exitCode = 1
    /\ nread = 3
    /\ header.Name = NameGoBinGo
    /\ header.Typeflag = "reg"
    /\ Join(Destination, NameGo) \in DOMAIN fs \ DOMAIN fs0
    /\ Join(Destination, NameGoBin) \in DOMAIN fs \ DOMAIN fs0
    /\ Join(Destination, NameGoBinGo) \in DOMAIN fs
    /\ fs[Join(Destination, NameGoBinGo)].data = <<>>

---------------------------------------------------------------------------
\* the directory that holds p
Parent(p) ==
    LET k == CHOOSE i \in DOMAIN p :
                p[i] = "/" /\ \A j \in DOMAIN p : (p[j] = "/") => (j <= i)
    IN IF k = 1 THEN <<"/">> ELSE SubSeq(p, 1, k - 1)

(* C16: a regular-file entry makes no directory.  It is written only when  *)
(* the directory that holds its path exists at that turn of the loop;      *)
(* when it does not, extraction ends with an error and nothing is changed. *)
(* A directory entry for a missing path makes the path and every missing   *)
(* directory above it, all with the same mode (the entry's, less the       *)
(* umask).                                                                 *)
C16_NoParentsForRegularFiles ==
    [][(pc = "extracting" /\ nread' = nread + 1) =>
          LET target == Join(Destination, header'.Name) IN
          /\ (header'.Typeflag = "reg" /\ Under(target, Destination)) =>
                /\ \A p \in DOMAIN fs' \ DOMAIN fs : p = target /\ fs'[p].kind = "file"
                /\ (fs' # fs) =>
                      (Parent(target) \in DOMAIN fs /\ fs[Parent(target)].kind = "dir")
                /\ ~(Parent(target) \in DOMAIN fs /\ fs[Parent(target)].kind = "dir") =>
                      (pc' = "exit" /\ exitCode' = 1 /\ fs' = fs)
          /\ (header'.Typeflag = "dir" /\ target \notin DOMAIN fs /\ pc' = "extracting") =>
                /\ DOMAIN fs' \ DOMAIN fs = Ancestors(target) \ DOMAIN fs
                /\ \A p \in DOMAIN fs' \ DOMAIN fs :
                      fs'[p].kind = "dir" /\ fs'[p].mode = header'.Mode \ umask]_vars

\* the first entry of the archive is the file go/bin/go and there is no go
\* directory: extraction fails and nothing was made
C16_Witness ==
    /\ pc = "exit"
    /\ exitCode = 1
    /\ nread = 1
    /\ header.Name = NameGoBinGo
    /\ header.Typeflag = "reg"
    /\ Destination \in DOMAIN fs
    /\ Join(Destination, NameGo) \notin DOMAIN fs
    /\ fs = fs0

====
